---- MODULE Spec2Model ----
(***************************************************************************)
(* Model of app.py, the Streamlit dashboard "Lebanon Trade Sector          *)
(* Analysis".  Streamlit reruns the whole script on every widget change;   *)
(* one rerun is one atomic action here.  The state is what one run of the  *)
(* script leaves behind: the two source tables, the two widget values and  *)
(* the values derived from them (filtered views, totals, chart data and    *)
(* the message shown under each chart).                                    *)
(*                                                                         *)
(* A DataFrame is a sequence of records (one record per row); a boolean    *)
(* mask is SelectSeq; Series.sum() is a left-to-right fold.                *)
(***************************************************************************)
EXTENDS Integers, Sequences, FiniteSets, TLC

\* Number of reruns explored in one session.
MaxRuns == 4
\* Largest rotation applied to a table when its rows are permuted.
MaxRot == 3

VARIABLES
  regional_size_data,          \* institution table returned by load_trade_data()
  regional_activity_data,      \* activity table returned by load_trade_data()
  selected_region,             \* value of the region selectbox
  institution_sizes,           \* value of the size multiselect, in selection order
  filtered_size_data,          \* institution view after Filter 1 and Filter 2
  filtered_activity_data,      \* activity view after Filter 1
  filtered_total_institutions,
  filtered_total_activities,
  plot_data,                   \* data frame handed to px.pie (<<>>: no chart)
  plot_data2,                  \* data frame handed to px.bar (<<>>: no chart)
  viz1_msg,                    \* which st.info/success/warning/error ran in col1
  viz2_msg,                    \* which st.info/success/warning ran in col2
  runs,                        \* reruns so far in the session
  history                      \* what each run so far displayed, per selection

vars == <<regional_size_data, regional_activity_data, selected_region,
          institution_sizes, filtered_size_data, filtered_activity_data,
          filtered_total_institutions, filtered_total_activities,
          plot_data, plot_data2, viz1_msg, viz2_msg, runs, history>>

----------------------------------------------------------------------------
(* Helpers on sequences.                                                   *)

Range(s) == {s[i] : i \in DOMAIN s}

\* Python's  lst * n
RECURSIVE Repeat(_, _)
Repeat(lst, n) == IF n = 0 THEN <<>> ELSE lst \o Repeat(lst, n - 1)

\* Python's  [x] * n  laid out group after group:  [a]*n + [b]*n + ...
RECURSIVE RepeatEach(_, _)
RepeatEach(lst, n) ==
  IF lst = <<>> THEN <<>>
  ELSE Repeat(<<Head(lst)>>, n) \o RepeatEach(Tail(lst), n)

----------------------------------------------------------------------------
(* load_trade_data(): the two literal tables.                              *)

AllRegions == "All Regions"

SizeOptions == <<"Small Institutions", "Medium Institutions", "Large Institutions">>

ActivityTypes == <<"Self Employment", "Commerce", "Public Sector",
                   "Service Institutions", "Banking">>

SizeRegionColumn ==
  <<"Bekaa", "Bekaa", "Bekaa",
    "Mount Lebanon", "Mount Lebanon", "Mount Lebanon",
    "North Lebanon", "North Lebanon", "North Lebanon",
    "South Lebanon", "South Lebanon", "South Lebanon",
    "Nabatieh", "Nabatieh", "Nabatieh">>

SizeColumn == Repeat(SizeOptions, 5)

CountColumn ==
  <<8500, 580, 150,
    12200, 820, 220,
    7800, 520, 140,
    6200, 410, 110,
    4240, 282, 64>>

ActivityRegionColumn ==
  Repeat(<<"Bekaa", "Mount Lebanon", "North Lebanon", "South Lebanon", "Nabatieh">>, 5)

\* The activity column written as  [types...] * 5  instead of  [t] * 5 + ...
ActivityTypeColumnCycled == Repeat(ActivityTypes, 5)

ActivityTypeColumn == RepeatEach(ActivityTypes, 5)

TownsColumn ==
  <<165, 220, 142, 118, 77,
    120, 158, 98, 82, 35,
    48, 62, 38, 35, 24,
    32, 41, 26, 18, 9,
    22, 28, 18, 15, 8>>

load_trade_data ==
  [regional_size_data |->
     [i \in 1..Len(CountColumn) |->
        [Region |-> SizeRegionColumn[i],
         InstitutionSize |-> SizeColumn[i],
         Count |-> CountColumn[i]]],
   regional_activity_data |->
     [i \in 1..Len(TownsColumn) |->
        [Region |-> ActivityRegionColumn[i],
         ActivityType |-> ActivityTypeColumn[i],
         TownsWithActivity |-> TownsColumn[i]]]]

\* sorted(regional_size_data['Region'].unique().tolist()): the distinct
\* region names in lexicographic order.
SortedRegions ==
  <<"Bekaa", "Mount Lebanon", "Nabatieh", "North Lebanon", "South Lebanon">>

\* The selectbox options written out by hand, with a governorate that has
\* no rows in either table.
all_regionsHardcoded == <<AllRegions>> \o SortedRegions \o <<"Beirut">>

all_regions == <<AllRegions>> \o SortedRegions

----------------------------------------------------------------------------
(* pandas reductions.                                                      *)

\* df['Count'].sum()
RECURSIVE SumCount(_)
SumCount(df) == IF df = <<>> THEN 0 ELSE Head(df).Count + SumCount(Tail(df))

\* df['Towns with Activity'].sum()
RECURSIVE SumTowns(_)
SumTowns(df) ==
  IF df = <<>> THEN 0 ELSE Head(df).TownsWithActivity + SumTowns(Tail(df))

\* Group keys come out of groupby(..., sort=True) in lexicographic order.
SortedSizeKeys == <<"Large Institutions", "Medium Institutions", "Small Institutions">>

SortedActivityKeys == <<"Banking", "Commerce", "Public Sector",
                        "Self Employment", "Service Institutions">>

\* df.groupby('Institution Size')['Count'].first().reset_index()
GroupBySizeFirst(df) ==
  LET keys == SelectSeq(SortedSizeKeys,
                        LAMBDA k : \E i \in DOMAIN df : df[i].InstitutionSize = k)
  IN [j \in 1..Len(keys) |->
        [InstitutionSize |-> keys[j],
         Count |-> Head(SelectSeq(df, LAMBDA r : r.InstitutionSize = keys[j])).Count]]

\* df.groupby('Institution Size')['Count'].count().reset_index()
GroupBySizeCount(df) ==
  LET keys == SelectSeq(SortedSizeKeys,
                        LAMBDA k : \E i \in DOMAIN df : df[i].InstitutionSize = k)
  IN [j \in 1..Len(keys) |->
        [InstitutionSize |-> keys[j],
         Count |-> Len(SelectSeq(df, LAMBDA r : r.InstitutionSize = keys[j]))]]

\* df.groupby('Institution Size')['Count'].sum().reset_index()
GroupBySize(df) ==
  LET keys == SelectSeq(SortedSizeKeys,
                        LAMBDA k : \E i \in DOMAIN df : df[i].InstitutionSize = k)
  IN [j \in 1..Len(keys) |->
        [InstitutionSize |-> keys[j],
         Count |-> SumCount(SelectSeq(df, LAMBDA r : r.InstitutionSize = keys[j]))]]

\* df.groupby('Activity Type')['Towns with Activity'].first().reset_index()
GroupByActivityFirst(df) ==
  LET keys == SelectSeq(SortedActivityKeys,
                        LAMBDA k : \E i \in DOMAIN df : df[i].ActivityType = k)
  IN [j \in 1..Len(keys) |->
        [ActivityType |-> keys[j],
         TownsWithActivity |->
           Head(SelectSeq(df, LAMBDA r : r.ActivityType = keys[j])).TownsWithActivity]]

\* df.groupby('Activity Type')['Towns with Activity'].sum().reset_index()
GroupByActivity(df) ==
  LET keys == SelectSeq(SortedActivityKeys,
                        LAMBDA k : \E i \in DOMAIN df : df[i].ActivityType = k)
  IN [j \in 1..Len(keys) |->
        [ActivityType |-> keys[j],
         TownsWithActivity |->
           SumTowns(SelectSeq(df, LAMBDA r : r.ActivityType = keys[j]))]]

\* df.sort_values('Towns with Activity', ascending=True), by insertion.
RECURSIVE SortValues(_)
SortValues(df) ==
  IF df = <<>> THEN <<>>
  ELSE LET x    == Head(df)
           rest == SortValues(Tail(df))
           lo   == SelectSeq(rest, LAMBDA r : r.TownsWithActivity < x.TownsWithActivity)
           hi   == SelectSeq(rest, LAMBDA r : ~(r.TownsWithActivity < x.TownsWithActivity))
       IN lo \o <<x>> \o hi

----------------------------------------------------------------------------
(* The script body: filters, totals and the two visualisations.            *)

\* Filter 1 with the sentinel test left out: the mask is always built.
Filter1NoSentinel(df, region) == SelectSeq(df, LAMBDA r : r.Region = region)

\* Filter 1, applied alike to both tables: df[df['Region'] == region] for a
\* chosen region, df.copy() for the sentinel.
Filter1(df, region) ==
  IF region # AllRegions
    THEN SelectSeq(df, LAMBDA r : r.Region = region)
    ELSE df

\* Filter 2 with an empty selection taken to mean "no restriction".
Filter2ShowAll(df, sizes) ==
  IF sizes # <<>>
    THEN SelectSeq(df, LAMBDA r : r.InstitutionSize \in Range(sizes))
    ELSE df

\* Filter 2 with the mask inverted.
Filter2NotIn(df, sizes) ==
  IF sizes # <<>>
    THEN SelectSeq(df, LAMBDA r : r.InstitutionSize \notin Range(sizes))
    ELSE SubSeq(df, 1, 0)

\* Filter 2 comparing against the first selected size only.
Filter2FirstOnly(df, sizes) ==
  IF sizes # <<>>
    THEN SelectSeq(df, LAMBDA r : r.InstitutionSize = Head(sizes))
    ELSE SubSeq(df, 1, 0)

\* Filter 2: df[df['Institution Size'].isin(sizes)], or df.iloc[0:0] when
\* nothing is selected.
Filter2(df, sizes) ==
  IF sizes # <<>>
    THEN SelectSeq(df, LAMBDA r : r.InstitutionSize \in Range(sizes))
    ELSE SubSeq(df, 1, 0)

\* The institution view: Filter 1 then Filter 2.
SizeView(df, region, sizes) == Filter2(Filter1(df, region), sizes)

\* The activity view with the size selection applied to it as well.
ActivityViewSized(df, region, sizes) ==
  IF sizes # <<>> THEN Filter1(df, region) ELSE SubSeq(df, 1, 0)

\* The activity view: Filter 1 only; Filter 2 never touches this frame.
ActivityView(df, region, sizes) == Filter1(df, region)

TotalInstitutions(df) == IF Len(df) > 0 THEN SumCount(df) ELSE 0

TotalActivities(df) == IF Len(df) > 0 THEN SumTowns(df) ELSE 0

\* plot_data without the national group-by.
PlotDataUngrouped(df, region) == IF Len(df) > 0 THEN df ELSE <<>>

\* plot_data of VISUALIZATION 1 (<<>> when the chart branch is not taken).
PlotData(df, region) ==
  IF Len(df) > 0
    THEN IF region # AllRegions THEN df ELSE GroupBySize(df)
    ELSE <<>>

\* plot_data2 of VISUALIZATION 2 (<<>> when the chart branch is not taken).
PlotData2(df, region) ==
  IF Len(df) > 0
    THEN IF region # AllRegions THEN df ELSE SortValues(GroupByActivity(df))
    ELSE <<>>

\* The message under chart 1.
Viz1Msg(df, region, sizes) ==
  IF Len(df) > 0
    THEN IF Len(sizes) < 3 THEN "info_sizes_only"
         ELSE IF region # AllRegions THEN "info_regional_focus"
         ELSE "success_national_overview"
    ELSE IF sizes = <<>> THEN "warning_select_size"
         ELSE "error_no_data"

\* The message under chart 2.
Viz2Msg(df, region) ==
  IF Len(df) > 0
    THEN IF region # AllRegions THEN "info_regional_focus"
         ELSE "success_national_overview"
    ELSE "warning_no_activity_data"

\* One run of the script on tables rsd, rad with the given widget values.
Script(rsd, rad, region, sizes) ==
  LET fsd == SizeView(rsd, region, sizes)
      fad == ActivityView(rad, region, sizes)
  IN [filtered_size_data          |-> fsd,
      filtered_activity_data      |-> fad,
      filtered_total_institutions |-> TotalInstitutions(fsd),
      filtered_total_activities   |-> TotalActivities(fad),
      plot_data                   |-> PlotData(fsd, region),
      plot_data2                  |-> PlotData2(fad, region),
      viz1_msg                    |-> Viz1Msg(fsd, region, sizes),
      viz2_msg                    |-> Viz2Msg(fad, region)]

\* What a run displayed, keyed by the selection as a (region, size set) pair.
Shown(region, sizes, out) ==
  [region |-> region,
   sizes  |-> Range(sizes),
   filtered_size_data          |-> out.filtered_size_data,
   filtered_activity_data      |-> out.filtered_activity_data,
   filtered_total_institutions |-> out.filtered_total_institutions,
   filtered_total_activities   |-> out.filtered_total_activities]

----------------------------------------------------------------------------
(* Initial state: the first run, with the widgets at their defaults.       *)

FirstRun(rsd, rad) ==
  LET out == Script(rsd, rad, all_regions[1], SizeOptions)
  IN /\ regional_size_data = rsd
     /\ regional_activity_data = rad
     /\ selected_region = all_regions[1]
     /\ institution_sizes = SizeOptions
     /\ filtered_size_data = out.filtered_size_data
     /\ filtered_activity_data = out.filtered_activity_data
     /\ filtered_total_institutions = out.filtered_total_institutions
     /\ filtered_total_activities = out.filtered_total_activities
     /\ plot_data = out.plot_data
     /\ plot_data2 = out.plot_data2
     /\ viz1_msg = out.viz1_msg
     /\ viz2_msg = out.viz2_msg
     /\ runs = 0
     /\ history = {Shown(all_regions[1], SizeOptions, out)}

Init ==
  FirstRun(load_trade_data.regional_size_data,
           load_trade_data.regional_activity_data)

\* A rerun of the script after the widgets changed to (region, sizes).  The
\* cached loader hands back the same two tables.  With log set, the run's
\* display is added to history.
Rerun(region, sizes, log) ==
  LET out == Script(regional_size_data, regional_activity_data, region, sizes)
  IN /\ runs < MaxRuns
     /\ selected_region' = region
     /\ institution_sizes' = sizes
     /\ filtered_size_data' = out.filtered_size_data
     /\ filtered_activity_data' = out.filtered_activity_data
     /\ filtered_total_institutions' = out.filtered_total_institutions
     /\ filtered_total_activities' = out.filtered_total_activities
     /\ plot_data' = out.plot_data
     /\ plot_data2' = out.plot_data2
     /\ viz1_msg' = out.viz1_msg
     /\ viz2_msg' = out.viz2_msg
     /\ runs' = runs + 1
     /\ history' = IF log THEN history \cup {Shown(region, sizes, out)} ELSE history
     /\ UNCHANGED <<regional_size_data, regional_activity_data>>

\* The user picks another entry of the region selectbox.
SelectRegion(r, log) ==
  /\ r # selected_region
  /\ Rerun(r, institution_sizes, log)

\* The user adds an option to the multiselect.
SelectSize(s, log) ==
  /\ s \notin Range(institution_sizes)
  /\ Rerun(selected_region, Append(institution_sizes, s), log)

\* The user removes an option from the multiselect.
DeselectSize(s, log) ==
  /\ s \in Range(institution_sizes)
  /\ Rerun(selected_region, SelectSeq(institution_sizes, LAMBDA x : x # s), log)

Next ==
  \/ \E r \in Range(all_regions) : SelectRegion(r, TRUE)
  \/ \E s \in Range(SizeOptions) : SelectSize(s, TRUE)
  \/ \E s \in Range(SizeOptions) : DeselectSize(s, TRUE)

Spec == Init /\ [][Next]_vars

----------------------------------------------------------------------------
(* The same session started on row-permuted tables.                        *)

RECURSIVE Reverse(_)
Reverse(s) == IF s = <<>> THEN <<>> ELSE Append(Reverse(Tail(s)), Head(s))

Rotate(s, k) == SubSeq(s, k + 1, Len(s)) \o SubSeq(s, 1, k)

RowOrders(s) ==
  {Rotate(s, k) : k \in 0..MaxRot} \cup {Reverse(Rotate(s, k)) : k \in 0..MaxRot}

InitPerm ==
  \E rsd \in RowOrders(load_trade_data.regional_size_data) :
    \E rad \in RowOrders(load_trade_data.regional_activity_data) :
      FirstRun(rsd, rad)

\* The same widget events; history is not kept in this session.
NextPerm ==
  \/ \E r \in Range(all_regions) : SelectRegion(r, FALSE)
  \/ \E s \in Range(SizeOptions) : SelectSize(s, FALSE)
  \/ \E s \in Range(SizeOptions) : DeselectSize(s, FALSE)

SpecPerm == InitPerm /\ [][NextPerm]_vars

----------------------------------------------------------------------------
(* Properties.                                                             *)

SmallOnly == <<"Small Institutions">>

\* The tables as load_trade_data() writes them.
SizeTable == load_trade_data.regional_size_data
ActivityTable == load_trade_data.regional_activity_data

\* Sum of the Count column over the rows of pd in size category k.
CategorySum(pd, k) == SumCount(SelectSeq(pd, LAMBDA r : r.InstitutionSize = k))

\* Sum of the towns column over the rows of pd of activity type k.
ActivitySum(pd, k) == SumTowns(SelectSeq(pd, LAMBDA r : r.ActivityType = k))

\* C1: with an empty size multiselect, whatever the region, the institution
\* view has no rows, its total is 0, chart 1 is not computed and the run
\* ends in the "select at least one institution size" warning.
C1_EmptySizeSelection ==
  institution_sizes = <<>> =>
    /\ Len(filtered_size_data) = 0
    /\ filtered_total_institutions = 0
    /\ plot_data = <<>>
    /\ viz1_msg = "warning_select_size"

C1_Witness ==
  /\ institution_sizes = <<>>
  /\ selected_region = "Nabatieh"
  /\ viz1_msg = "warning_select_size"

\* C2: under 'All Regions' the activity view is the whole activity table and
\* the institution view is the rows of the institution table whose size is
\* selected (the whole table when all three sizes are selected).
C2_SentinelPassesEveryRow ==
  selected_region = AllRegions =>
    /\ filtered_activity_data = regional_activity_data
    /\ Range(filtered_size_data) =
         {r \in Range(regional_size_data) : r.InstitutionSize \in Range(institution_sizes)}
    /\ Len(filtered_size_data) = Cardinality(Range(filtered_size_data))
    /\ Range(institution_sizes) = Range(SizeOptions) =>
         filtered_size_data = regional_size_data

C2_Witness ==
  /\ selected_region = AllRegions
  /\ runs > 0
  /\ Len(institution_sizes) = 2
  /\ Len(filtered_size_data) = 10
  /\ Len(filtered_activity_data) = 25

\* C3: for every selection the institution view is exactly the rows of the
\* institution table that pass both the region predicate and the size
\* predicate, each once.
C3_ViewIsConjunctionOfPredicates ==
  /\ Range(filtered_size_data) =
       {r \in Range(regional_size_data) :
          /\ selected_region = AllRegions \/ r.Region = selected_region
          /\ r.InstitutionSize \in Range(institution_sizes)}
  /\ Len(filtered_size_data) = Cardinality(Range(filtered_size_data))
  /\ Range(filtered_size_data) \subseteq Range(regional_size_data)

C3_Witness ==
  /\ selected_region = "Mount Lebanon"
  /\ Range(institution_sizes) = {"Small Institutions", "Large Institutions"}
  /\ Len(filtered_size_data) = 2

\* C4: a single region gives an activity view of exactly 5 rows, one per
\* activity type; for Bekaa the activity total is 387.
C4_SingleRegionActivityView ==
  selected_region # AllRegions =>
    /\ Len(filtered_activity_data) = 5
    /\ \A t \in Range(ActivityTypes) :
         Cardinality({i \in DOMAIN filtered_activity_data :
                        filtered_activity_data[i].ActivityType = t}) = 1
    /\ \A i \in DOMAIN filtered_activity_data :
         filtered_activity_data[i].Region = selected_region
    /\ selected_region = "Bekaa" =>
         filtered_total_activities = 165 + 120 + 48 + 32 + 22

C4_Witness ==
  /\ selected_region = "Bekaa"
  /\ filtered_total_activities = 387
  /\ Len(filtered_activity_data) = 5

\* C5: 'All Regions' with only Small Institutions selected gives an
\* institution total of 38940 and chart data of one category, Small, whose
\* count is the view total (100% of the pie).
C5_SmallOnlyNational ==
  (selected_region = AllRegions /\ institution_sizes = SmallOnly) =>
    /\ filtered_total_institutions = 38940
    /\ Len(plot_data) = 1
    /\ plot_data[1].InstitutionSize = "Small Institutions"
    /\ plot_data[1].Count = filtered_total_institutions
    /\ (plot_data[1].Count * 100) \div SumCount(plot_data) = 100

C5_Witness ==
  /\ selected_region = AllRegions
  /\ institution_sizes = SmallOnly
  /\ Len(filtered_size_data) = 5
  /\ viz1_msg = "info_sizes_only"

\* C6 as stated: 'All Regions' with all three sizes selected sums the
\* institution table to Small = 38940, Medium = 2612, Large = 884.
C6_Original ==
  (selected_region = AllRegions /\ Range(institution_sizes) = Range(SizeOptions)) =>
    /\ CategorySum(plot_data, "Small Institutions") = 38940
    /\ CategorySum(plot_data, "Medium Institutions") = 2612
    /\ CategorySum(plot_data, "Large Institutions") = 884

\* C6: 'All Regions' with all three sizes selected sums the institution
\* table to Small = 38940, Medium = 2612, Large = 684, one chart row each.
C6_NationalSumsBySize ==
  (selected_region = AllRegions /\ Range(institution_sizes) = Range(SizeOptions)) =>
    /\ Len(plot_data) = 3
    /\ CategorySum(plot_data, "Small Institutions") = 38940
    /\ CategorySum(plot_data, "Medium Institutions") = 2612
    /\ CategorySum(plot_data, "Large Institutions") = 684

C6_Witness ==
  /\ selected_region = AllRegions
  /\ Len(institution_sizes) = 3
  /\ institution_sizes # SizeOptions
  /\ viz1_msg = "success_national_overview"

\* C7: runs that end in the same (region, size set) selection displayed the
\* same views and totals whatever came before, the current run included,
\* and the two source tables still hold what load_trade_data() wrote.
C7_RerunDependsOnSelectionOnly ==
  /\ \A h1, h2 \in history :
       (h1.region = h2.region /\ h1.sizes = h2.sizes) => h1 = h2
  /\ \E h \in history :
       /\ h.region = selected_region
       /\ h.sizes = Range(institution_sizes)
       /\ h.filtered_size_data = filtered_size_data
       /\ h.filtered_activity_data = filtered_activity_data
       /\ h.filtered_total_institutions = filtered_total_institutions
       /\ h.filtered_total_activities = filtered_total_activities
  /\ regional_size_data = SizeTable
  /\ regional_activity_data = ActivityTable

\* {Small, Medium} was selected twice, in the two orders, by different paths.
C7_Witness ==
  /\ institution_sizes = <<"Medium Institutions", "Small Institutions">>
  /\ runs = 3
  /\ Cardinality(history) = 3

\* C8: started on row-permuted tables, every run shows views with the same
\* set of rows, the same two totals and the same per-category sums as the
\* run on the unpermuted tables with the same selection.
C8_RowOrderIndependence ==
  LET ref == Script(SizeTable, ActivityTable, selected_region, institution_sizes)
  IN /\ Range(filtered_size_data) = Range(ref.filtered_size_data)
     /\ Len(filtered_size_data) = Len(ref.filtered_size_data)
     /\ Range(filtered_activity_data) = Range(ref.filtered_activity_data)
     /\ Len(filtered_activity_data) = Len(ref.filtered_activity_data)
     /\ filtered_total_institutions = ref.filtered_total_institutions
     /\ filtered_total_activities = ref.filtered_total_activities
     /\ \A k \in Range(SizeOptions) :
          CategorySum(plot_data, k) = CategorySum(ref.plot_data, k)
     /\ \A k \in Range(ActivityTypes) :
          ActivitySum(plot_data2, k) = ActivitySum(ref.plot_data2, k)

C8_Witness ==
  /\ regional_size_data # SizeTable
  /\ regional_activity_data # ActivityTable
  /\ filtered_size_data # Script(SizeTable, ActivityTable, selected_region,
                                 institution_sizes).filtered_size_data
  /\ selected_region = AllRegions
  /\ Len(institution_sizes) = 2
  /\ runs > 0

\* C9: with a non-empty institution view the counts in the chart data add up
\* to the institution total shown under the chart, and under 'All Regions'
\* the per-activity group sums add up to the activity total.
C9_GroupingPreservesTotals ==
  /\ Len(filtered_size_data) > 0 =>
       SumCount(plot_data) = filtered_total_institutions
  /\ selected_region = AllRegions =>
       SumTowns(plot_data2) = filtered_total_activities

C9_Witness ==
  /\ selected_region = AllRegions
  /\ Len(institution_sizes) = 2
  /\ Len(plot_data) = 2
  /\ Len(filtered_size_data) = 10
  /\ Len(plot_data2) = 5

C11_NoDataBranchesUnreachable ==
  /\ selected_region \in Range(all_regions)
  /\ Range(institution_sizes) \subseteq Range(SizeOptions)
  /\ Len(filtered_size_data) = 0 <=> institution_sizes = <<>>
  /\ Len(filtered_activity_data) > 0
  /\ viz1_msg # "error_no_data"
  /\ viz2_msg # "warning_no_activity_data"

C11_Witness ==
  /\ selected_region = "South Lebanon"
  /\ institution_sizes = <<"Large Institutions">>
  /\ Len(filtered_size_data) = 1
  /\ Len(filtered_activity_data) = 5
  /\ viz1_msg = "info_sizes_only"
  /\ viz2_msg = "info_regional_focus"

====
